---- MODULE Spec2Model ----
(***************************************************************************)
(* lithic-schemagen CLI (src/datamodel_code_generator/lithic_cli.py).      *)
(*                                                                         *)
(* One run of main(): for every configured source clone, generate and      *)
(* format into a scratch directory; then either publish the scratch trees  *)
(* into the output module paths (--generate) or diff them against the      *)
(* output module paths.  The file system is a function from paths to file  *)
(* texts; a path is the sequence of the components of its string, split    *)
(* at "/", so "a/" is <<"a", "">> and "a//x.py" is <<"a", "", "x.py">>.    *)
(***************************************************************************)
EXTENDS Integers, Sequences, FiniteSets, TLC

VARIABLES
    main_config,      \* LithicConfig: [sources, default], read-only in a run
    generate,         \* args.generate
    disk,             \* the working directory: resolved path -> text
    pc,               \* position of main()
    idx,              \* index of the source the for-loop of line 131 is at
    cfg,              \* main's local `cfg`
    cmd_args,         \* main's local `cmd_args`
    clone_cache,      \* keys memoized by @cache on run_clone_repo
    failed,           \* main's local `failed`
    outputs,          \* main's local `outputs`
    module_paths,     \* main's local `module_paths`
    deleted,          \* module paths the loop of line 166 has been through
    copyIdx,          \* outputs the loop of line 170 has been through
    existing_files,   \* main's local `existing_files`
    diffIdx,          \* output the loop of line 185 is at
    diffTodo,         \* files of that output the loop of line 187 has left
    exitCode,         \* process exit status, -1 while running
    \* history of the run, read by the properties only
    cloneCount,       \* clone operations executed, per (repo, branch)
    status,           \* per source: its place in the lifecycle
    failedAt,         \* per source: the step that raised, or "none"
    compared,         \* <<output index, relative path>> handed to run_diff
    drift,            \* <<output index, relative path>> whose run_diff raised
    extraReported,    \* the files logged as extra
    preDisk,          \* disk when the run started
    cleanPublishes    \* consecutive fully successful publish runs just before

vars == <<main_config, generate, disk, pc, idx, cfg, cmd_args, clone_cache,
          failed, outputs,
          module_paths, deleted, copyIdx, existing_files, diffIdx, diffTodo,
          exitCode, cloneCount, status, failedAt, compared, drift,
          extraReported, preDisk, cleanPublishes>>

---------------------------------------------------------------------------
(* Bounds *)

MaxSources == 2

\* lexemes in an argument string
MaxArgLen == 3

---------------------------------------------------------------------------
(* Texts and paths *)

NL == "\n"
EmptyText == <<>>
TextA == <<"A", NL>>
TextANoNL == <<"A">>
TextB == <<"B", NL>>

InitPy == "__init__.py"

RECURSIVE SplitFrom(_, _)
SplitFrom(text, cur) ==
    IF text = <<>> THEN (IF cur = <<>> THEN <<>> ELSE <<cur>>)
    ELSE IF Head(text) = NL THEN <<cur>> \o SplitFrom(Tail(text), <<>>)
    ELSE SplitFrom(Tail(text), Append(cur, Head(text)))

\* str.splitlines(): the lines without their terminators
splitlines(text) == SplitFrom(text, <<>>)

\* the file the operating system opens for a path string: empty components
\* ("a//x.py", "a/") do not count
Resolve(path) == SelectSeq(path, LAMBDA c : c # "")

IsPrefix(p, q) == Len(p) <= Len(q) /\ SubSeq(q, 1, Len(p)) = p

FilesUnder(d, dir) == {p \in DOMAIN d : IsPrefix(dir, p) /\ p # dir}

IsFile(d, p) == p \in DOMAIN d

IsDir(d, p) == FilesUnder(d, p) # {}

RelTo(dir, p) == SubSeq(p, Len(dir) + 1, Len(p))

EmptyDisk == [p \in {} |-> EmptyText]

\* os.path.join(root, name)
os_path_join(root, name) ==
    IF root # <<>> /\ root[Len(root)] = ""
    THEN SubSeq(root, 1, Len(root) - 1) \o <<name>>
    ELSE root \o <<name>>

\* f'{path}/{fn}'
fstring_join(path, fn) == path \o <<fn>>

basename(path) == path[Len(path)]

RECURSIVE WalkPath(_, _)
WalkPath(root, rel) ==
    IF rel = <<>> THEN root
    ELSE WalkPath(os_path_join(root, Head(rel)), Tail(rel))

\* list_files(directory): os.walk yields nothing for a missing directory
list_files(d, directory) ==
    {WalkPath(directory, RelTo(Resolve(directory), p)) :
        p \in FilesUnder(d, Resolve(directory))}

\* bug: rmtree removes nothing
C7_RmtreeKeeps(d, path) == d

\* shutil.rmtree(path, ignore_errors=True)
rmtree(d, path) ==
    [p \in DOMAIN d \ FilesUnder(d, Resolve(path)) |-> d[p]]

\* where shutil.copytree puts the file `rel` of the source tree, <<>> when the
\* copy of that file raises (a regular file where a directory is needed, a
\* directory where copy2 would write)
CopyTarget(d, dst, rel) ==
    LET want == Resolve(dst) \o rel
        blocked == \E n \in 0..(Len(want) - 1) : IsFile(d, SubSeq(want, 1, n))
        into == want \o <<basename(rel)>>
    IN  IF blocked THEN <<>>
        ELSE IF IsDir(d, want)
             THEN (IF IsDir(d, into) THEN <<>> ELSE into)
             ELSE want

\* bug: the copy first clears the destination (delete and copy per source)
C2_CopyReplaces(d, tree, dst) ==
    LET e == rmtree(d, dst)
        ok == {rel \in DOMAIN tree : CopyTarget(e, dst, rel) # <<>>}
        targets == {CopyTarget(e, dst, rel) : rel \in ok}
        srcOf(t) == CHOOSE rel \in ok : CopyTarget(e, dst, rel) = t
    IN  [disk |-> [p \in DOMAIN e \cup targets |->
                      IF p \in targets THEN tree[srcOf(p)] ELSE e[p]],
         raised |-> ok # DOMAIN tree]

\* bug: the copy leaves a file that is already there as it is
C20_CopyKeepsExisting(d, tree, dst) ==
    LET ok == {rel \in DOMAIN tree : CopyTarget(d, dst, rel) # <<>>}
        targets == {CopyTarget(d, dst, rel) : rel \in ok}
        srcOf(t) == CHOOSE rel \in ok : CopyTarget(d, dst, rel) = t
    IN  [disk |-> [p \in DOMAIN d \cup targets |->
                      IF p \in DOMAIN d THEN d[p] ELSE tree[srcOf(p)]],
         raised |-> ok # DOMAIN tree]

\* shutil.copytree(src, dst, dirs_exist_ok=True); src holds `tree`
copytree(d, tree, dst) ==
    LET ok == {rel \in DOMAIN tree : CopyTarget(d, dst, rel) # <<>>}
        targets == {CopyTarget(d, dst, rel) : rel \in ok}
        srcOf(t) == CHOOSE rel \in ok : CopyTarget(d, dst, rel) = t
    IN  [disk |-> [p \in DOMAIN d \cup targets |->
                      IF p \in targets THEN tree[srcOf(p)] ELSE d[p]],
         raised |-> ok # DOMAIN tree]

---------------------------------------------------------------------------
(* Configuration *)

\* A raw source definition is source_config.dict(exclude_unset=True): a
\* function on the fields that were given, each <<value>> or <<>> for None.
DefaultConfig ==
    [repo |-> "lithic/api", branch |-> "main", args |-> EmptyText,
     output_module_path |-> <<"a">>]

\* bug: a field of the default is never overridden
C11_DefaultWins(default_config, source_config) ==
    [k \in DOMAIN default_config \cup DOMAIN source_config |->
        IF k \in DOMAIN default_config
        THEN default_config[k]
        ELSE source_config[k][1]]

\* merge_config(default_config, source_config)
merge_config(default_config, source_config) ==
    [k \in DOMAIN default_config \cup DOMAIN source_config |->
        IF k \in DOMAIN source_config /\ source_config[k] # <<>>
        THEN source_config[k][1]
        ELSE default_config[k]]

SourceChoices ==
    { [input |-> <<"x.yaml">>],
      [input |-> <<"y.yaml">>],
      [input |-> <<"x2.yaml">>, branch |-> <<"dev">>],
      [input |-> <<"pkg.yaml">>, branch |-> <<>>],
      [input |-> <<"y.yaml">>, output_module_path |-> << <<"a", "">> >>],
      [input |-> <<"x.yaml">>, branch |-> <<"dev">>,
       output_module_path |-> << <<"a", "s">> >>] }

\* what create_module and the generator leave in the scratch directory of a
\* source, after ruff: relative path -> text
GeneratedTree(input) ==
    CASE input = "x.yaml" -> (<<InitPy>> :> EmptyText) @@ (<<"x.py">> :> TextA)
      [] input = "y.yaml" -> (<<InitPy>> :> EmptyText) @@ (<<"y.py">> :> TextA)
      [] input = "x2.yaml" -> (<<InitPy>> :> EmptyText) @@ (<<"x.py">> :> TextB)
      [] input = "pkg.yaml" ->
            (<<InitPy>> :> EmptyText) @@ (<<"s", "x.py">> :> TextA)

InitDisks ==
    { EmptyDisk,
      (<<"a", InitPy>> :> EmptyText) @@ (<<"a", "x.py">> :> TextA),
      (<<"a", InitPy>> :> EmptyText) @@ (<<"a", "x.py">> :> TextANoNL),
      (<<"a", "x.py">> :> TextB) }

Configs ==
    UNION { [1..n -> SourceChoices] : n \in 0..MaxSources }

---------------------------------------------------------------------------
(* Derived *)

NumSources == Len(main_config.sources)

Cfg(i) == merge_config(main_config.default, main_config.sources[i])

\* the arguments of run_clone_repo, the key of its @cache
CloneKey(i) == <<Cfg(i).repo, Cfg(i).branch>>

AllKeys == {<<DefaultConfig.repo, b>> : b \in {"main", "dev"}}

OutputPath(out) == Cfg(out.source).output_module_path

\* bug: the module paths of every configured source are collected
C19_AllSourcePaths(outs) ==
    {Cfg(i).output_module_path : i \in 1..NumSources}

\* lines 161-164: the set of the output module paths of `outputs`
ModulePaths(outs) == {OutputPath(outs[k]) : k \in DOMAIN outs}

\* lines 178-183
ExistingFiles(d, outs) ==
    UNION {list_files(d, OutputPath(outs[k])) : k \in DOMAIN outs}

\* line 189-191: the file a generated file is compared with
DiffTarget(out, rel) == fstring_join(OutputPath(out), basename(rel))

\* run_diff(f1, f2) raises: f2 cannot be opened, or the lines differ
run_diff_raises(text1, d, f2) ==
    \/ ~IsFile(d, Resolve(f2))
    \/ splitlines(text1) # splitlines(d[Resolve(f2)])

\* the loop of line 131 moves on to the next source, or ends
AfterSource(i) == IF i + 1 > NumSources THEN "reconcile" ELSE "merge"

\* functools.cache keeps the result of a call that returned, not one that raised
CacheAfterClone(cache, key, returned) ==
    IF returned THEN cache \cup {key} ELSE cache

\* bug: the failure flag does not reach the exit status
C9_ExitZero(f) == 0

\* lines 205-206, and Python's status for a run that returns
ExitStatus(f) == IF f THEN 1 ELSE 0

---------------------------------------------------------------------------
(* Generator arguments *)

\* An argument string is the sequence of its lexemes: a blank, a single
\* quote, "=", or a word.  A token of the argument list is the sequence of
\* the lexemes it is made of.
Blank == " "
Quote == "'"
HeaderOption == "--custom-file-header"
DefaultHeader == "# lithic-schemagen"

\* shlex.split, POSIX mode: blanks outside quotes end a token, quotes are
\* dropped and keep blanks, '' makes an empty token, an unclosed quote raises
RECURSIVE ShlexFrom(_, _, _, _, _)
ShlexFrom(s, tokens, cur, inToken, quoted) ==
    IF s = <<>>
    THEN [raised |-> quoted,
          tokens |-> IF inToken /\ ~quoted THEN Append(tokens, cur) ELSE tokens]
    ELSE LET c == Head(s)
             rest == Tail(s)
         IN  IF quoted
             THEN IF c = Quote
                  THEN ShlexFrom(rest, tokens, cur, TRUE, FALSE)
                  ELSE ShlexFrom(rest, tokens, Append(cur, c), TRUE, TRUE)
             ELSE IF c = Blank
                  THEN ShlexFrom(rest,
                                 IF inToken THEN Append(tokens, cur) ELSE tokens,
                                 <<>>, FALSE, FALSE)
                  ELSE IF c = Quote
                       THEN ShlexFrom(rest, tokens, cur, TRUE, TRUE)
                       ELSE ShlexFrom(rest, tokens, Append(cur, c), TRUE, FALSE)

shlex_split(s) == ShlexFrom(s, <<>>, <<>>, FALSE, FALSE)

\* line 138: the directory run_clone_repo returns for (repo, branch)
repo_path(c) == <<"clone", c.repo, c.branch>>

\* line 139: f'{tmp_dir}/{cfg.output_module_path}'
final_path(c) == <<"tmp_dir", "/">> \o c.output_module_path

\* line 145: '--custom-file-header' in cmd_args
HeaderGiven(cmd) == \E n \in DOMAIN cmd : cmd[n] = <<HeaderOption>>

\* lines 141-146
CmdArgs(c) ==
    LET cmd == shlex_split(c.args).tokens
                  \o << <<"--input">>, repo_path(c) \o <<"/", c.input>> >>
                  \o << <<"--output">>, final_path(c) >>
    IN  IF HeaderGiven(cmd)
        THEN cmd
        ELSE cmd \o << <<HeaderOption>>, <<DefaultHeader>> >>

---------------------------------------------------------------------------
(* The run *)

\* `cfg` before line 137 has bound it
Unbound == [bound |-> FALSE]


RunStart(conf, gen, d, clean) ==
    /\ main_config = conf
    /\ generate = gen
    /\ disk = d
    /\ pc = IF Len(conf.sources) = 0 THEN "reconcile" ELSE "merge"
    /\ idx = 1
    /\ cfg = Unbound
    /\ cmd_args = <<>>
    /\ clone_cache = {}
    /\ failed = FALSE
    /\ outputs = <<>>
    /\ module_paths = {}
    /\ deleted = {}
    /\ copyIdx = 0
    /\ existing_files = {}
    /\ diffIdx = 0
    /\ diffTodo = {}
    /\ exitCode = -1
    /\ cloneCount = [k \in AllKeys |-> 0]
    /\ status = [i \in 1..Len(conf.sources) |-> "pending"]
    /\ failedAt = [i \in 1..Len(conf.sources) |-> "none"]
    /\ compared = {}
    /\ drift = {}
    /\ extraReported = {}
    /\ preDisk = d
    /\ cleanPublishes = clean

Init ==
    \E s \in Configs, gen \in BOOLEAN, d \in InitDisks :
        RunStart([sources |-> s, default |-> DefaultConfig], gen, d, 0)

reconcileVars == <<module_paths, deleted, copyIdx, existing_files, diffIdx,
                   diffTodo, compared, drift, extraReported>>

frameVars == <<main_config, generate, preDisk, cleanPublishes, exitCode>>

localVars == <<cfg, cmd_args>>

\* bug: the except clause leaves the loop (break instead of continue)
C8_RaiseEndsLoop(step) ==
    /\ failed' = TRUE
    /\ status' = [status EXCEPT ![idx] = "failed"]
    /\ failedAt' = [failedAt EXCEPT ![idx] = step]
    /\ pc' = "reconcile"
    /\ idx' = idx + 1
    /\ UNCHANGED <<outputs, disk>>

\* bug: the except clause runs the same source again
C12_RaiseRetries(step) ==
    /\ failed' = TRUE
    /\ status' = [status EXCEPT ![idx] = "failed"]
    /\ failedAt' = [failedAt EXCEPT ![idx] = step]
    /\ pc' = "merge"
    /\ idx' = idx
    /\ UNCHANGED <<outputs, disk>>

\* lines 155-158: the except clause of the loop body
RaiseInSource(step) ==
    /\ failed' = TRUE
    /\ status' = [status EXCEPT ![idx] = "failed"]
    /\ failedAt' = [failedAt EXCEPT ![idx] = step]
    /\ pc' = AfterSource(idx)
    /\ idx' = idx + 1
    /\ UNCHANGED <<outputs, disk>>

\* line 137
MergeConfig ==
    /\ pc = "merge"
    /\ cfg' = merge_config(main_config.default, main_config.sources[idx])
    /\ pc' = "clone"
    /\ UNCHANGED <<idx, cmd_args, clone_cache, cloneCount, failed, failedAt,
                   outputs, disk, status>>
    /\ UNCHANGED <<reconcileVars, frameVars>>

\* lines 139-146; shlex.split raises ValueError on an unclosed quote
BuildArgs ==
    /\ pc = "args"
    /\ IF shlex_split(cfg.args).raised
       THEN RaiseInSource("args") /\ UNCHANGED cmd_args
       ELSE /\ cmd_args' = CmdArgs(cfg)
            /\ pc' = "generate"
            /\ UNCHANGED <<idx, failed, failedAt, outputs, disk, status>>
    /\ UNCHANGED <<cfg, clone_cache, cloneCount, reconcileVars, frameVars>>

\* line 138, the call answered by the cache
CloneCached ==
    /\ pc = "clone"
    /\ CloneKey(idx) \in clone_cache
    /\ pc' = "args"
    /\ status' = [status EXCEPT ![idx] = "cloned"]
    /\ UNCHANGED <<idx, clone_cache, cloneCount, failed, failedAt, outputs, disk>>
    /\ UNCHANGED <<reconcileVars, frameVars>>
    /\ UNCHANGED localVars

\* lines 62-68: git.Repo.clone_from returns
CloneReturns ==
    /\ pc = "clone"
    /\ CloneKey(idx) \notin clone_cache
    /\ cloneCount' = [cloneCount EXCEPT ![CloneKey(idx)] = @ + 1]
    /\ clone_cache' = CacheAfterClone(clone_cache, CloneKey(idx), TRUE)
    /\ pc' = "args"
    /\ status' = [status EXCEPT ![idx] = "cloned"]
    /\ UNCHANGED <<idx, failed, failedAt, outputs, disk>>
    /\ UNCHANGED <<reconcileVars, frameVars>>
    /\ UNCHANGED localVars

\* lines 62-68: git.Repo.clone_from raises
CloneRaises ==
    /\ pc = "clone"
    /\ CloneKey(idx) \notin clone_cache
    /\ cloneCount' = [cloneCount EXCEPT ![CloneKey(idx)] = @ + 1]
    /\ clone_cache' = CacheAfterClone(clone_cache, CloneKey(idx), FALSE)
    /\ RaiseInSource("clone")
    /\ UNCHANGED <<reconcileVars, frameVars>>
    /\ UNCHANGED localVars

\* lines 148-151: the generator returns
GenerateReturns ==
    /\ pc = "generate"
    /\ pc' = "ruff"
    /\ status' = [status EXCEPT ![idx] = "generated"]
    /\ UNCHANGED <<idx, clone_cache, cloneCount, failed, failedAt, outputs, disk>>
    /\ UNCHANGED <<reconcileVars, frameVars>>
    /\ UNCHANGED localVars

\* lines 148-151: the generator raises
GenerateRaises ==
    /\ pc = "generate"
    /\ RaiseInSource("generate")
    /\ UNCHANGED <<clone_cache, cloneCount, reconcileVars, frameVars>>
    /\ UNCHANGED localVars

\* lines 152-153: ruff succeeds and the source joins `outputs`
RuffReturns ==
    /\ pc = "ruff"
    /\ outputs' = Append(outputs,
                     [source |-> idx,
                      output_dir |-> GeneratedTree(Cfg(idx).input)])
    /\ status' = [status EXCEPT ![idx] = "normalized"]
    /\ pc' = AfterSource(idx)
    /\ idx' = idx + 1
    /\ UNCHANGED <<clone_cache, cloneCount, failed, failedAt, disk>>
    /\ UNCHANGED <<reconcileVars, frameVars>>
    /\ UNCHANGED localVars

\* lines 71-78: ruff exits nonzero
RuffRaises ==
    /\ pc = "ruff"
    /\ RaiseInSource("ruff")
    /\ UNCHANGED <<clone_cache, cloneCount, reconcileVars, frameVars>>
    /\ UNCHANGED localVars

loopVars == <<idx, clone_cache, cloneCount, failedAt, outputs>>

\* bug: the delete loop stops after its first module path
C1_DeleteLoopStopsEarly(paths, done) == done # {} \/ paths = {}

\* the loop of line 166 has been through every module path
DeleteLoopDone(paths, done) == done = paths

\* the loop of line 170, or of line 185, has been through every output
OutputLoopDone(n, outs) == n >= Len(outs)

\* lines 162-163, lines 181-182: the loop over `outputs` rebinds `cfg`
CfgAfterOutputs(c, outs) ==
    IF outs = <<>> THEN c ELSE Cfg(outs[Len(outs)].source)

\* lines 160-164
BeginPublish ==
    /\ pc = "reconcile"
    /\ generate
    /\ module_paths' = ModulePaths(outputs)
    /\ deleted' = {}
    /\ pc' = IF DeleteLoopDone(module_paths', {}) THEN "copy" ELSE "delete"
    /\ cfg' = CfgAfterOutputs(cfg, outputs)
    /\ UNCHANGED <<disk, failed, status, loopVars, frameVars, cmd_args>>
    /\ UNCHANGED <<copyIdx, existing_files, diffIdx, diffTodo, compared,
                   drift, extraReported>>

\* lines 166-168: one iteration, in the order the set happens to give
DeleteStep ==
    /\ pc = "delete"
    /\ \E path \in module_paths \ deleted :
          /\ disk' = rmtree(disk, path)
          /\ deleted' = deleted \cup {path}
    /\ pc' = IF DeleteLoopDone(module_paths, deleted') THEN "copy" ELSE "delete"
    /\ UNCHANGED <<failed, status, loopVars, frameVars>>
    /\ UNCHANGED <<module_paths, copyIdx, existing_files, diffIdx, diffTodo,
                   compared, drift, extraReported>>
    /\ UNCHANGED localVars

\* lines 170-175: one iteration; an error of copytree is not caught and ends
\* the process with status 1
CopyStep ==
    /\ pc = "copy"
    /\ ~OutputLoopDone(copyIdx, outputs)
    /\ LET out == outputs[copyIdx + 1]
           res == copytree(disk, out.output_dir, OutputPath(out))
       IN  /\ disk' = res.disk
           /\ cfg' = Cfg(out.source)
           /\ IF res.raised
              THEN /\ pc' = "done"
                   /\ exitCode' = 1
                   /\ UNCHANGED <<copyIdx, status>>
              ELSE /\ pc' = "copy"
                   /\ copyIdx' = copyIdx + 1
                   /\ status' = [status EXCEPT ![out.source] = "published"]
                   /\ UNCHANGED exitCode
    /\ UNCHANGED <<failed, loopVars, main_config, generate, preDisk,
                   cleanPublishes, cmd_args>>
    /\ UNCHANGED <<module_paths, deleted, existing_files, diffIdx, diffTodo,
                   compared, drift, extraReported>>

\* the loop of line 170 ends
CopyDone ==
    /\ pc = "copy"
    /\ OutputLoopDone(copyIdx, outputs)
    /\ pc' = "exit"
    /\ UNCHANGED <<disk, failed, status, loopVars, frameVars, reconcileVars>>
    /\ UNCHANGED localVars

\* bug: a run without --generate takes the publish branch
C16_VerifyPublishes ==
    /\ pc = "reconcile"
    /\ ~generate
    /\ module_paths' = ModulePaths(outputs)
    /\ deleted' = {}
    /\ pc' = IF DeleteLoopDone(module_paths', {}) THEN "copy" ELSE "delete"
    /\ cfg' = CfgAfterOutputs(cfg, outputs)
    /\ UNCHANGED <<disk, failed, status, loopVars, frameVars, cmd_args>>
    /\ UNCHANGED <<copyIdx, existing_files, diffIdx, diffTodo, compared,
                   drift, extraReported>>

\* lines 177-183
BeginVerify ==
    /\ pc = "reconcile"
    /\ ~generate
    /\ existing_files' = ExistingFiles(disk, outputs)
    /\ IF OutputLoopDone(0, outputs)
       THEN pc' = "extra" /\ UNCHANGED <<diffIdx, diffTodo>>
       ELSE /\ pc' = "diff"
            /\ diffIdx' = 1
            /\ diffTodo' = DOMAIN outputs[1].output_dir
    /\ cfg' = CfgAfterOutputs(cfg, outputs)
    /\ UNCHANGED <<disk, failed, status, loopVars, frameVars, cmd_args>>
    /\ UNCHANGED <<module_paths, deleted, copyIdx, compared, drift,
                   extraReported>>

\* bug: the first run_diff that raises ends the checks
C17_DriftAborts ==
    /\ pc = "diff"
    /\ \E rel \in diffTodo :
          LET out == outputs[diffIdx]
              f2 == DiffTarget(out, rel)
              raises == run_diff_raises(out.output_dir[rel], disk, f2)
              last == diffTodo = {rel}
          IN  /\ compared' = compared \cup {<<diffIdx, rel>>}
              /\ cfg' = Cfg(out.source)
              /\ IF raises
                 THEN /\ failed' = TRUE
                      /\ drift' = drift \cup {<<diffIdx, rel>>}
                      /\ pc' = "exit"
                      /\ UNCHANGED <<existing_files, diffTodo, diffIdx, status>>
                 ELSE /\ existing_files' = existing_files \ {f2}
                      /\ UNCHANGED <<failed, drift>>
                      /\ IF ~last
                         THEN /\ diffTodo' = diffTodo \ {rel}
                              /\ UNCHANGED <<pc, diffIdx, status>>
                         ELSE /\ status' = [status EXCEPT
                                               ![out.source] = "verified"]
                              /\ IF OutputLoopDone(diffIdx, outputs)
                                 THEN /\ pc' = "extra"
                                      /\ diffTodo' = {}
                                      /\ UNCHANGED diffIdx
                                 ELSE /\ diffIdx' = diffIdx + 1
                                      /\ diffTodo' =
                                            DOMAIN outputs[diffIdx + 1].output_dir
                                      /\ UNCHANGED pc
    /\ UNCHANGED <<disk, loopVars, frameVars, cmd_args>>
    /\ UNCHANGED <<module_paths, deleted, copyIdx, extraReported>>

\* lines 187-199: one generated file, in the order os.walk happens to give
DiffStep ==
    /\ pc = "diff"
    /\ \E rel \in diffTodo :
          LET out == outputs[diffIdx]
              f2 == DiffTarget(out, rel)
              raises == run_diff_raises(out.output_dir[rel], disk, f2)
              last == diffTodo = {rel}
          IN  /\ compared' = compared \cup {<<diffIdx, rel>>}
              /\ cfg' = Cfg(out.source)
              /\ IF raises
                 THEN /\ failed' = TRUE
                      /\ drift' = drift \cup {<<diffIdx, rel>>}
                      /\ UNCHANGED existing_files
                 ELSE /\ existing_files' = existing_files \ {f2}
                      /\ UNCHANGED <<failed, drift>>
              /\ IF ~last
                 THEN /\ diffTodo' = diffTodo \ {rel}
                      /\ UNCHANGED <<pc, diffIdx, status>>
                 ELSE /\ status' = [status EXCEPT ![out.source] = "verified"]
                      /\ IF OutputLoopDone(diffIdx, outputs)
                         THEN /\ pc' = "extra"
                              /\ diffTodo' = {}
                              /\ UNCHANGED diffIdx
                         ELSE /\ diffIdx' = diffIdx + 1
                              /\ diffTodo' = DOMAIN outputs[diffIdx + 1].output_dir
                              /\ UNCHANGED pc
    /\ UNCHANGED <<disk, loopVars, frameVars, cmd_args>>
    /\ UNCHANGED <<module_paths, deleted, copyIdx, extraReported>>

\* lines 201-203
ExtraCheck ==
    /\ pc = "extra"
    /\ failed' = (failed \/ existing_files # {})
    /\ extraReported' = existing_files
    /\ pc' = "exit"
    /\ UNCHANGED <<disk, status, loopVars, frameVars>>
    /\ UNCHANGED <<module_paths, deleted, copyIdx, existing_files, diffIdx,
                   diffTodo, compared, drift>>
    /\ UNCHANGED localVars

\* lines 205-206
Exit ==
    /\ pc = "exit"
    /\ exitCode' = ExitStatus(failed)
    /\ pc' = "done"
    /\ UNCHANGED <<disk, failed, status, loopVars, reconcileVars>>
    /\ UNCHANGED <<main_config, generate, preDisk, cleanPublishes>>
    /\ UNCHANGED localVars

\* the run that just ended was a publish run in which nothing failed
CleanPublish == generate /\ exitCode = 0

\* the command is run again on the same configuration and upstream content
NewRun ==
    /\ pc = "done"
    /\ \E gen \in BOOLEAN :
          LET clean == IF CleanPublish
                       THEN (IF cleanPublishes < 2 THEN cleanPublishes + 1 ELSE 2)
                       ELSE 0
          IN  /\ generate' = gen
              /\ disk' = disk
              /\ main_config' = main_config
              /\ pc' = IF NumSources = 0 THEN "reconcile" ELSE "merge"
              /\ idx' = 1
              /\ cfg' = Unbound
              /\ cmd_args' = <<>>
              /\ clone_cache' = {}
              /\ failed' = FALSE
              /\ outputs' = <<>>
              /\ module_paths' = {}
              /\ deleted' = {}
              /\ copyIdx' = 0
              /\ existing_files' = {}
              /\ diffIdx' = 0
              /\ diffTodo' = {}
              /\ exitCode' = -1
              /\ cloneCount' = [k \in AllKeys |-> 0]
              /\ status' = [i \in 1..NumSources |-> "pending"]
              /\ failedAt' = [i \in 1..NumSources |-> "none"]
              /\ compared' = {}
              /\ drift' = {}
              /\ extraReported' = {}
              /\ preDisk' = disk
              /\ cleanPublishes' = clean

Next ==
    \/ MergeConfig
    \/ BuildArgs
    \/ CloneCached
    \/ CloneReturns
    \/ CloneRaises
    \/ GenerateReturns
    \/ GenerateRaises
    \/ RuffReturns
    \/ RuffRaises
    \/ BeginPublish
    \/ DeleteStep
    \/ CopyStep
    \/ CopyDone
    \/ BeginVerify
    \/ DiffStep
    \/ ExtraCheck
    \/ Exit
    \/ NewRun

Spec == Init /\ [][Next]_vars

---------------------------------------------------------------------------
(* merge_config on its own: every way of giving a field *)

\* the ways a raw source definition can give a field: omitted, None, a falsy
\* value, a value
Ways(falsy, value) ==
    {[given |-> FALSE, value |-> <<>>], [given |-> TRUE, value |-> <<>>],
     [given |-> TRUE, value |-> <<falsy>>], [given |-> TRUE, value |-> <<value>>]}

Field(k, way) == IF way.given THEN k :> way.value ELSE [x \in {} |-> <<>>]

OtherDefault ==
    [repo |-> "lithic/other", branch |-> "", args |-> <<"--opt">>,
     output_module_path |-> <<"a", "s">>]

InitMerge ==
    \E r \in Ways("", "lithic/other"), b \in Ways("", "dev"),
       a \in Ways(EmptyText, <<"--opt">>), o \in Ways(<<"">>, <<"a", "s">>),
       dflt \in {DefaultConfig, OtherDefault}, gen \in BOOLEAN :
        RunStart([sources |-> << [input |-> <<"x.yaml">>] @@ Field("repo", r)
                                 @@ Field("branch", b) @@ Field("args", a)
                                 @@ Field("output_module_path", o) >>,
                  default |-> dflt], gen, EmptyDisk, 0)

NextMerge == MergeConfig

SpecMerge == InitMerge /\ [][NextMerge]_vars

---------------------------------------------------------------------------
(* The argument list on its own: every short argument string *)

ArgLexemes == {HeaderOption, "=", Blank, Quote, "X"}

ArgStrings == UNION { [1..n -> ArgLexemes] : n \in 0..MaxArgLen }

InitArgs ==
    \E a \in ArgStrings, gen \in BOOLEAN :
        RunStart([sources |-> << [input |-> <<"x.yaml">>, args |-> <<a>>] >>,
                  default |-> DefaultConfig], gen, EmptyDisk, 0)

NextArgs == MergeConfig \/ CloneReturns \/ BuildArgs

SpecArgs == InitArgs /\ [][NextArgs]_vars

---------------------------------------------------------------------------
(* Runs over two unrelated output locations, "a" and "b", one of which may *)
(* be taken by a regular file                                              *)

RootSources ==
    { [input |-> <<"x.yaml">>],
      [input |-> <<"y.yaml">>, output_module_path |-> << <<"b">> >>],
      [input |-> <<"x.yaml">>, output_module_path |-> << <<"a", "s">> >>] }

RootDisks ==
    { (<<"a", InitPy>> :> EmptyText) @@ (<<"a", "x.py">> :> TextB)
          @@ (<<"b">> :> TextA),
      (<<"a", InitPy>> :> EmptyText) @@ (<<"a", "x.py">> :> TextB)
          @@ (<<"b", "y.py">> :> TextB) }

InitRoots ==
    \E s \in UNION { [1..n -> RootSources] : n \in 0..MaxSources },
       gen \in BOOLEAN, d \in RootDisks :
        RunStart([sources |-> s, default |-> DefaultConfig], gen, d, 0)

SpecRoots == InitRoots /\ [][Next]_vars

---------------------------------------------------------------------------
(* Vocabulary of the properties *)

Done == pc = "done"

PublishDone == Done /\ generate

VerifyDone == Done /\ ~generate

SourceFailed(i) == failedAt[i] # "none"

AnySourceFailed == \E i \in 1..NumSources : SourceFailed(i)

\* where the file `rel` generated for output k belongs on disk
Place(k, rel) == Resolve(OutputPath(outputs[k])) \o rel

Places(k) == {Place(k, rel) : rel \in DOMAIN outputs[k].output_dir}

AllPlaces == UNION {Places(k) : k \in DOMAIN outputs}

\* the outputs that generated a file belonging at p
Makers(p) == {k \in DOMAIN outputs : p \in Places(k)}

\* p lies in the output location of some output of this run
InTouchedLocation(p) ==
    \E k \in DOMAIN outputs : IsPrefix(Resolve(OutputPath(outputs[k])), p)

\* the relative paths of the generated files of this run
AllRels == UNION {DOMAIN outputs[k].output_dir : k \in DOMAIN outputs}

SameLocation(j, k) ==
    Resolve(OutputPath(outputs[j])) = Resolve(OutputPath(outputs[k]))

---------------------------------------------------------------------------
(* C1 *)

\* C1: in publish mode every deletion of an output location is over before
\* the first copy begins: once a copy has been made every output location of
\* the run has been deleted, no deletion follows a copy, and no file
\* disappears from disk once copying has begun.
C1_DeletesBeforeCopies ==
    /\ [](generate /\ copyIdx > 0 =>
            \A k \in DOMAIN outputs :
                Cfg(outputs[k].source).output_module_path \in deleted)
    /\ [][deleted' # deleted => copyIdx = 0 \/ pc = "done"]_vars
    /\ [][pc = "copy" /\ copyIdx > 0 => DOMAIN disk \subseteq DOMAIN disk']_vars

C1_Witness ==
    /\ pc = "copy"
    /\ copyIdx >= 1
    /\ Cardinality(deleted) >= 2
    /\ Len(outputs) >= 2

---------------------------------------------------------------------------
(* C2 *)

\* C2: after a publish run, for two outputs of the run that resolve to the
\* same output location, every file that only one of them generated is on
\* disk in that location with the text that source generated.
C2_SharedOutputIsolation ==
    PublishDone /\ copyIdx = Len(outputs) =>
        \A j, k \in DOMAIN outputs :
            j # k /\ SameLocation(j, k) =>
                \A rel \in DOMAIN outputs[j].output_dir
                              \ DOMAIN outputs[k].output_dir :
                    Makers(Place(j, rel)) = {j} =>
                        /\ IsFile(disk, Place(j, rel))
                        /\ disk[Place(j, rel)] = outputs[j].output_dir[rel]

C2_Witness ==
    /\ PublishDone
    /\ \E j, k \in DOMAIN outputs :
          /\ j < k
          /\ SameLocation(j, k)
          /\ \E rj \in DOMAIN outputs[j].output_dir
                        \ DOMAIN outputs[k].output_dir,
                rk \in DOMAIN outputs[k].output_dir
                        \ DOMAIN outputs[j].output_dir :
                /\ IsFile(disk, Place(j, rj))
                /\ disk[Place(j, rj)] = outputs[j].output_dir[rj]
                /\ IsFile(disk, Place(k, rk))
                /\ disk[Place(k, rk)] = outputs[k].output_dir[rk]

---------------------------------------------------------------------------
(* C3 *)

\* C3: a second publish run without failures leaves the disk as the first
\* left it, and a verify run right after two such publish runs, in which no
\* source fails, finds no drift and no extra file and exits 0.
C3_Idempotence ==
    /\ (PublishDone /\ exitCode = 0 /\ cleanPublishes >= 1 => disk = preDisk)
    /\ (VerifyDone /\ cleanPublishes >= 2 /\ ~AnySourceFailed =>
            exitCode = 0 /\ drift = {} /\ extraReported = {})

---------------------------------------------------------------------------
(* C4 *)

\* C4: a verify run exits 0 only if every generated file is on disk at its
\* relative path under the output location with the same text, byte for
\* byte, and the output locations hold no other file.
C4_VerifyPassMeansIdentical ==
    VerifyDone /\ exitCode = 0 =>
        /\ \A i \in 1..NumSources : \E k \in DOMAIN outputs : outputs[k].source = i
        /\ \A k \in DOMAIN outputs : \A rel \in DOMAIN outputs[k].output_dir :
              /\ IsFile(disk, Place(k, rel))
              /\ disk[Place(k, rel)] = outputs[k].output_dir[rel]
        /\ \A p \in DOMAIN disk : InTouchedLocation(p) => p \in AllPlaces

---------------------------------------------------------------------------
(* C5 *)

\* C5: after a verify run, every file on disk in an output location of the
\* run that no source generated in this run is among the files reported as
\* extra, and the exit status is 1.
C5_ExtraFilesReported ==
    VerifyDone =>
        \A p \in DOMAIN disk :
            InTouchedLocation(p) /\ p \notin AllPlaces =>
                /\ \E e \in extraReported : Resolve(e) = p
                /\ exitCode = 1

---------------------------------------------------------------------------
(* C6 *)

\* C6: after a verify run, every generated file whose counterpart in the
\* output location is missing or differs in a line has a recorded failure,
\* and the exit status is 1.
C6_DriftDetected ==
    VerifyDone =>
        \A k \in DOMAIN outputs : \A rel \in DOMAIN outputs[k].output_dir :
            (\/ ~IsFile(disk, Place(k, rel))
             \/ splitlines(disk[Place(k, rel)])
                    # splitlines(outputs[k].output_dir[rel])) =>
                /\ <<k, rel>> \in drift
                /\ exitCode = 1

---------------------------------------------------------------------------
(* C7 *)

\* C7: after a publish run, the files in the output locations of the run are
\* exactly the files generated in this run, each with the text some output
\* generated for it; a file that was there before and was not generated in
\* this run is gone.
C7_ReplaceSemantics ==
    PublishDone /\ copyIdx = Len(outputs) =>
        /\ AllPlaces \subseteq DOMAIN disk
        /\ \A p \in DOMAIN disk :
              InTouchedLocation(p) =>
                  \E k \in Makers(p) :
                      \E rel \in DOMAIN outputs[k].output_dir :
                          Place(k, rel) = p /\ disk[p] = outputs[k].output_dir[rel]
        /\ \A p \in DOMAIN preDisk :
              InTouchedLocation(p) /\ p \notin AllPlaces => p \notin DOMAIN disk

C7_Witness ==
    /\ PublishDone
    /\ outputs # <<>>
    /\ \E p \in DOMAIN preDisk :
          InTouchedLocation(p) /\ p \notin AllPlaces /\ p \notin DOMAIN disk

---------------------------------------------------------------------------
(* C8 *)

---------------------------------------------------------------------------
(* C9 *)

---------------------------------------------------------------------------
(* C10 *)

\* C10: in one run the clone operation is executed at most once for each
\* (repo, branch), whatever its outcome.
C10_AtMostOneClone == \A key \in AllKeys : cloneCount[key] <= 1

---------------------------------------------------------------------------
(* C11 *)

OverrideFields == {"repo", "branch", "args", "output_module_path"}

Merged == pc = "clone"

RawSource == main_config.sources[idx]

\* C11 as claimed: a field present in the raw source definition overrides,
\* whatever its value, None included
C11_PresenceOverrides ==
    Merged =>
        \A k \in OverrideFields :
            IF k \in DOMAIN RawSource
            THEN <<cfg[k]>> = RawSource[k]
            ELSE cfg[k] = main_config.default[k]

\* C11: merge_config yields the source's value for every field that the raw
\* source definition gives with a value other than None, the empty string
\* included, and the default's value for a field that is omitted or None.
C11_MergeByPresence ==
    Merged =>
        \A k \in OverrideFields :
            IF k \in DOMAIN RawSource /\ RawSource[k] # <<>>
            THEN cfg[k] = RawSource[k][1]
            ELSE cfg[k] = main_config.default[k]

C11_Witness ==
    /\ Merged
    /\ "branch" \in DOMAIN RawSource
    /\ RawSource["branch"] = <<"">>
    /\ cfg.branch = ""
    /\ main_config.default.branch = "main"
    /\ "repo" \in DOMAIN RawSource
    /\ RawSource["repo"] = <<>>
    /\ cfg.repo = main_config.default.repo
    /\ "args" \notin DOMAIN RawSource
    /\ cfg.args = main_config.default.args

---------------------------------------------------------------------------
(* C12 *)

Lifecycle ==
    {<<"pending", "cloned">>, <<"cloned", "generated">>,
     <<"generated", "normalized">>, <<"normalized", "published">>,
     <<"normalized", "verified">>, <<"pending", "failed">>,
     <<"cloned", "failed">>, <<"generated", "failed">>}

InOutputs(i) == \E k \in DOMAIN outputs : outputs[k].source = i

---------------------------------------------------------------------------
(* C13 *)

\* the tree a location holds: relative path -> text
Tree(d, loc) ==
    [rel \in {RelTo(loc, p) : p \in FilesUnder(d, loc)} |-> d[loc \o rel]]

\* the location holds exactly what the sources of this run generate into it
HoldsNewTree(loc) ==
    /\ FilesUnder(disk, loc) = {p \in AllPlaces : IsPrefix(loc, p)}
    /\ \A p \in FilesUnder(disk, loc) :
          \E k \in Makers(p) :
              \E rel \in DOMAIN outputs[k].output_dir :
                  Place(k, rel) = p /\ disk[p] = outputs[k].output_dir[rel]

\* C13: when a publish run has ended, an error of a copy included, the
\* location of every output holds either the tree it held before the run
\* or the complete newly generated tree.
C13_AtomicPublish ==
    PublishDone =>
        \A k \in DOMAIN outputs :
            LET loc == Resolve(OutputPath(outputs[k]))
            IN  Tree(disk, loc) = Tree(preDisk, loc) \/ HoldsNewTree(loc)

---------------------------------------------------------------------------
(* C14 *)

\* the file at p was enumerated into existing_files when the check began
\* (a verify run leaves the disk as it was)
Enumerated(p) == \E e \in ExistingFiles(preDisk, outputs) : Resolve(e) = p

\* C14: when a verify run has ended, every file on disk in the output
\* location of every configured source, failed ones included, was
\* enumerated for the extra-file check, and a run with a failed source
\* does not pass.
C14_FailedSourceStillChecked ==
    VerifyDone =>
        \A i \in 1..NumSources :
            /\ \A p \in FilesUnder(disk, Resolve(Cfg(i).output_module_path)) :
                  Enumerated(p)
            /\ SourceFailed(i) => status[i] # "verified" /\ exitCode = 1

---------------------------------------------------------------------------
(* C15 *)

\* some output of this run generated the file that is on disk at p: a file
\* belonging at p, with the lines the file at p has
GeneratedAsOnDisk(p) ==
    \E k \in Makers(p) :
        \E rel \in DOMAIN outputs[k].output_dir :
            /\ Place(k, rel) = p
            /\ splitlines(outputs[k].output_dir[rel]) = splitlines(disk[p])

\* C15: when a verify run has ended, every file reported as extra is on
\* disk in the location of some output and was not generated by any source
\* of this run.
C15_ExtraNotGenerated ==
    VerifyDone =>
        \A e \in extraReported :
            /\ IsFile(disk, Resolve(e))
            /\ InTouchedLocation(Resolve(e))
            /\ ~GeneratedAsOnDisk(Resolve(e))

---------------------------------------------------------------------------
(* C16 *)

\* C16: throughout a run without --generate, and when it has ended, the
\* disk is what it was when the run started: every file exists with the
\* same content, whether or not drift or extra files were found.
C16_VerifyLeavesDisk == ~generate => disk = preDisk

C16_Witness ==
    /\ VerifyDone
    /\ drift # {}
    /\ extraReported # {}
    /\ exitCode = 1
    /\ DOMAIN disk # {}
    /\ disk = preDisk

---------------------------------------------------------------------------
(* C17 *)

AllGenerated ==
    {kr \in (DOMAIN outputs) \X AllRels :
        kr[2] \in DOMAIN outputs[kr[1]].output_dir}

\* C17: when a verify run has ended, every generated file of every output
\* was handed to run_diff, whatever raised before it, and the extra-file
\* check ran on what was left of existing_files; drift and extra files
\* both end the run with status 1.
C17_ChecksRunToTheEnd ==
    VerifyDone =>
        /\ compared = AllGenerated
        /\ drift \subseteq compared
        /\ extraReported = existing_files
        /\ (drift # {} \/ extraReported # {}) => exitCode = 1

C17_Witness ==
    /\ VerifyDone
    /\ Len(outputs) = 2
    /\ \E r \in AllRels : <<1, r>> \in drift
    /\ \E r \in AllRels : <<2, r>> \in compared \ drift
    /\ extraReported # {}
    /\ exitCode = 1

---------------------------------------------------------------------------
(* C18 *)

ArgsBuilt == pc = "generate"

CallerTokens == shlex_split(cfg.args).tokens

\* the caller's argument string gives the header option: as a word of its
\* own (the value is the next word) or joined to its value by "="
CallerGivesHeader ==
    \E n \in DOMAIN CallerTokens :
        /\ CallerTokens[n] # <<>>
        /\ CallerTokens[n][1] = HeaderOption
        /\ Len(CallerTokens[n]) > 1 => CallerTokens[n][2] = "="

DefaultHeaderArgs == << <<HeaderOption>>, <<DefaultHeader>> >>

\* C18: the argument list handed to the generator is the shell words of the
\* source's argument string, then --input <repoPath>/<input> and --output
\* <outputLocation>, then the default file header if and only if the
\* argument string gives no file header; a header given by the caller never
\* comes with the default one.
C18_ArgumentSynthesis ==
    ArgsBuilt =>
        /\ cmd_args =
              CallerTokens
                  \o << <<"--input">>, repo_path(cfg) \o <<"/", cfg.input>>,
                        <<"--output">>, final_path(cfg) >>
                  \o (IF CallerGivesHeader THEN <<>> ELSE DefaultHeaderArgs)
        /\ CallerGivesHeader =>
              \A n \in DOMAIN cmd_args : cmd_args[n] # <<DefaultHeader>>

---------------------------------------------------------------------------
(* C19 *)

Loc(i) == Resolve(Cfg(i).output_module_path)

AllTargetingFailed(i) ==
    \A j \in 1..NumSources : Loc(j) = Loc(i) => SourceFailed(j)

NestedInDeleted(i) ==
    \E d \in deleted : IsPrefix(Resolve(d), Loc(i)) /\ Resolve(d) # Loc(i)

ContainsOutput(i) ==
    \E k \in DOMAIN outputs :
        /\ IsPrefix(Loc(i), Resolve(OutputPath(outputs[k])))
        /\ Loc(i) # Resolve(OutputPath(outputs[k]))

\* every deleted path is the module path of an output of this run
DeletedAreOutputs ==
    \A d \in deleted : \E k \in DOMAIN outputs : OutputPath(outputs[k]) = d

\* C19 as claimed: a location whose sources all failed and that is not nested
\* inside a deleted location is unchanged
C19_FailedLocationUntouched ==
    PublishDone =>
        /\ DeletedAreOutputs
        /\ \A i \in 1..NumSources :
              AllTargetingFailed(i) /\ ~NestedInDeleted(i) =>
                  Tree(disk, Loc(i)) = Tree(preDisk, Loc(i))

\* C19: when a publish run has ended, only module paths of outputs of the
\* run were deleted, and the output location of sources that all failed is
\* unchanged if it is neither nested inside a deleted location nor has the
\* location of an output of the run nested inside it.
C19_FailedLocationKept ==
    PublishDone =>
        /\ DeletedAreOutputs
        /\ \A i \in 1..NumSources :
              (AllTargetingFailed(i) /\ ~NestedInDeleted(i)
                  /\ ~ContainsOutput(i)) =>
                  Tree(disk, Loc(i)) = Tree(preDisk, Loc(i))

C19_Witness ==
    /\ PublishDone
    /\ deleted # {}
    /\ disk # preDisk
    /\ \E i \in 1..NumSources :
          /\ AllTargetingFailed(i)
          /\ ~NestedInDeleted(i)
          /\ ~ContainsOutput(i)
          /\ FilesUnder(preDisk, Loc(i)) # {}
          /\ Tree(disk, Loc(i)) = Tree(preDisk, Loc(i))

---------------------------------------------------------------------------
(* C20 *)

\* the output of the latest source that generated a file belonging at p
LastMaker(p) ==
    CHOOSE k \in Makers(p) :
        \A m \in Makers(p) : outputs[m].source <= outputs[k].source

\* the text output k generated for the place p
TextFor(k, p) ==
    outputs[k].output_dir[CHOOSE rel \in DOMAIN outputs[k].output_dir :
                              Place(k, rel) = p]

\* C20: when a publish run has copied every output, a file that several
\* outputs generated for the same place, two sources with the same output
\* location and the same relative path in particular, holds the text
\* generated by the source that comes last in the configuration.
C20_LaterSourceWins ==
    (PublishDone /\ OutputLoopDone(copyIdx, outputs)) =>
        \A p \in AllPlaces :
            IsFile(disk, p) /\ disk[p] = TextFor(LastMaker(p), p)

C20_Witness ==
    /\ PublishDone
    /\ OutputLoopDone(copyIdx, outputs)
    /\ \E j, k \in DOMAIN outputs :
          /\ outputs[j].source < outputs[k].source
          /\ OutputPath(outputs[j]) = OutputPath(outputs[k])
          /\ \E rel \in DOMAIN outputs[j].output_dir
                        \cap DOMAIN outputs[k].output_dir :
                /\ outputs[j].output_dir[rel] # outputs[k].output_dir[rel]
                /\ disk[Place(k, rel)] = outputs[k].output_dir[rel]

====
